---- MODULE Spec2Model ----
(***************************************************************************)
(* ConnectWise ticket alert script (connectwise_alert.py with config.py).  *)
(* One invocation of the script is one cycle: read last_run_id.txt, fetch  *)
(* the matching tickets, filter the new ones, alert, update the file.      *)
(* Invocations are started one after the other by an external scheduler;   *)
(* the only state that survives an invocation is the file last_run_id.txt. *)
(***************************************************************************)
EXTENDS Integers, Sequences, FiniteSets, TLC

\* ------------------------------------------------------------------ bounds

\* ticket ids on the board are 1..MaxId
MaxId == 2
\* invocations of the script in one behaviour
MaxCycles == 2

\* ------------------------------------------------------------------ processes

\* invocations that may exist side by side; the serial schedule uses one
Procs == {1, 2}
SerialProcs == {1}

\* ------------------------------------------------------------------ config.py

\* the names `from config import *` binds in the script (config.py, every
\* public module-level name, the imported module os included)
ConfigNames ==
    { "os", "CW_COMPANY_ID", "CW_PUBLIC_KEY", "CW_PRIVATE_KEY", "CW_CLIENT_ID",
      "CW_BASE_URL", "CW_BOARD_NAME", "CW_STATUS_NAME",
      "SLACK_WEBHOOK_URL_REGULAR", "SLACK_WEBHOOK_URL_URGENT",
      "SMTP_SERVER", "SMTP_PORT", "SENDER_EMAIL", "SENDER_PASSWORD",
      "SMS_RECIPIENT_EMAILS" }

\* the names the script binds itself: its imports and its functions
ScriptNames ==
    { "requests", "base64", "json", "datetime", "smtplib", "EmailMessage",
      "get_all_matching_tickets", "send_slack_webhook", "send_email",
      "format_ticket_message" }

\* a global name resolves iff the module binds it (none of the names the
\* script uses is a builtin); an unbound name raises NameError
NameBound(name) == name \in ConfigNames \cup ScriptNames

SMS_RECIPIENT_EMAILS == << "12627575505@txt.att.net", "14054039513@vtext.com" >>

\* ------------------------------------------------------------------ text

Digits == << "0", "1", "2", "3", "4", "5", "6", "7", "8", "9" >>
Whitespace == { " ", "\n" }

DigitValue(c) == (CHOOSE i \in 1..10 : Digits[i] = c) - 1

IsDigitChar(c) == \E i \in 1..10 : Digits[i] = c

\* str.isdigit(): non-empty and every character a digit
IsDigit(s) == Len(s) > 0 /\ \A i \in 1..Len(s) : IsDigitChar(s[i])

RECURSIVE LStrip(_)
LStrip(s) == IF s # << >> /\ Head(s) \in Whitespace THEN LStrip(Tail(s)) ELSE s

RECURSIVE RStrip(_)
RStrip(s) ==
    IF s # << >> /\ s[Len(s)] \in Whitespace
    THEN RStrip(SubSeq(s, 1, Len(s) - 1))
    ELSE s

\* str.strip()
Strip(s) == RStrip(LStrip(s))

\* int(s) of a digit string
RECURSIVE IntOf(_)
IntOf(s) ==
    IF s = << >> THEN 0
    ELSE 10 * IntOf(SubSeq(s, 1, Len(s) - 1)) + DigitValue(s[Len(s)])

\* str(n) of a non-negative integer
RECURSIVE StrOf(_)
StrOf(n) ==
    IF n < 10 THEN << Digits[n + 1] >>
    ELSE StrOf(n \div 10) \o << Digits[(n % 10) + 1] >>

\* ------------------------------------------------------------------ last_run_id.txt

\* last_run_id.txt: absent, or present with some text
NoFile == [exists |-> FALSE, text |-> << >>]
FileWith(s) == [exists |-> TRUE, text |-> s]

\* what the file may hold before the first invocation: nothing, an id written
\* by an earlier run (with or without a trailing newline), an empty or a
\* hand-edited text
InitialFiles ==
    { NoFile, FileWith(<< >>), FileWith(<< "x" >>), FileWith(<< "-", "1" >>) }
    \cup { FileWith(StrOf(n)) : n \in 0..MaxId }
    \cup { FileWith(StrOf(n) \o << "\n" >>) : n \in 1..MaxId }

\* a read that converts with int() alone, which takes a signed number
ReadLastIdSignedMutant(f, ioOk) ==
    LET content == Strip(f.text)
    IN  IF ~f.exists \/ ~ioOk THEN 0
        ELSE IF IsDigit(content) THEN IntOf(content)
        ELSE IF content # << >> /\ Head(content) = "-" /\ IsDigit(Tail(content))
             THEN 0 - IntOf(Tail(content))
        ELSE 0

\* a read whose default for a text that is not all digits is -1
ReadLastIdDefaultMutant(f, ioOk) ==
    IF ~f.exists \/ ~ioOk THEN 0
    ELSE IF IsDigit(Strip(f.text)) THEN IntOf(Strip(f.text)) ELSE -1

\* lines 168-173: open and read the file; any exception gives 0, a text that
\* is not all digits after strip() gives 0
ReadLastId(f, ioOk) ==
    IF ~f.exists \/ ~ioOk THEN 0
    ELSE IF IsDigit(Strip(f.text)) THEN IntOf(Strip(f.text)) ELSE 0

\* lines 237-242: open(..., 'w') truncates, write() stores str(id); an
\* exception at open leaves the file, one at write leaves it truncated
WriteOutcomes == { "ok", "open_fails", "write_fails" }

WriteLastId(f, id, outcome) ==
    CASE outcome = "ok" -> FileWith(StrOf(id))
      [] outcome = "open_fails" -> f
      [] outcome = "write_fails" -> FileWith(<< >>)

\* ------------------------------------------------------------------ tickets

\* a ticket as the API returns it; the fields the script reads
Ticket(i) == [id |-> i]
BoardTickets == { Ticket(i) : i \in 1..MaxId }

IsInjective(s) == \A i, j \in 1..Len(s) : s[i] = s[j] => i = j

\* the lists a fetch can return: tickets with distinct ids, in any order
TicketLists ==
    UNION { { s \in [1..n -> BoardTickets] : IsInjective(s) } : n \in 0..MaxId }

Ids(tickets) == { tickets[i].id : i \in 1..Len(tickets) }

\* tickets as a board could also return them: the id a JSON string (written
\* as the field id_str, a record field having one type), or no id at all
StrIdTicket == [id_str |-> "abc"]
MissingIdTicket == [summary |-> "no id"]
MalformedTickets == { StrIdTicket, MissingIdTicket }

AnyTicketLists ==
    UNION { { s \in [1..n -> BoardTickets \cup MalformedTickets] : IsInjective(s) } :
            n \in 0..MaxId }

\* ticket['id'] is an integer
HasIntId(ticket) == "id" \in DOMAIN ticket

\* line 181: ticket['id'] raises KeyError without the key, and a str > int
\* comparison raises TypeError
FilterRaises(tickets) == \E i \in 1..Len(tickets) : ~HasIntId(tickets[i])

\* lines 39-52: the response body on success, [] on a RequestException
GetAllMatchingTickets(requestOk, body) == IF requestOk THEN body ELSE << >>

\* line 181
IsNew(ticket, lastId) == ticket.id > lastId
NewTickets(tickets, lastId) == SelectSeq(tickets, LAMBDA t : IsNew(t, lastId))

Max2(a, b) == IF a >= b THEN a ELSE b

\* the id of the last new ticket, as if the list came in ascending order
MaxFormattedIdLastMutant(tickets) ==
    IF tickets = << >> THEN 0 ELSE tickets[Len(tickets)].id

\* lines 188, 197-208: the running maximum of the ids of the new tickets
RECURSIVE MaxFormattedId(_)
MaxFormattedId(tickets) ==
    IF tickets = << >> THEN 0
    ELSE Max2(MaxFormattedId(SubSeq(tickets, 1, Len(tickets) - 1)),
              tickets[Len(tickets)].id)

\* ------------------------------------------------------------------ alerts

\* lines 57-107: False when the URL is unset or a placeholder, False on a
\* RequestException of the post, True otherwise
SendSlackWebhook(urlConfigured, postOk) == urlConfigured /\ postOk

\* lines 109-132: False when the SMTP settings are incomplete, False on any
\* exception of the session, True otherwise
SendEmail(smtpConfigured, sessionOk) == smtpConfigured /\ sessionOk

\* a setting of config.py, os.environ.get(...): None when the variable is unset
Unset == [set |-> FALSE, text |-> ""]
Env(s) == [set |-> TRUE, text |-> s]

\* the truth value Python gives a setting: None and '' are false
Truthy(v) == v.set /\ v.text # ""

\* how a requests.post with raise_for_status() can end (lines 89-95): well, or
\* with one of the exceptions of requests
RequestExceptions == { "Timeout", "ConnectionError", "HTTPError" }
PostOutcomes == { "ok" } \cup RequestExceptions

\* how the SMTP session of lines 124-127 can end: well, or with an exception
\* at the connection, at starttls, at login or at send_message
SmtpExceptions ==
    { "OSError", "SMTPNotSupportedError", "SMTPAuthenticationError",
      "SMTPRecipientsRefused" }
SessionOutcomes == { "ok" } \cup SmtpExceptions

\* an except clause catches the exceptions of its class
Catches(handler, exc) ==
    \/ handler = "Exception"
    \/ handler = "RequestException" /\ exc \in RequestExceptions
    \/ handler = exc

\* an except clause for the HTTP status alone
SlackHandlerMutant == "HTTPError"

\* line 105
SlackHandler == "RequestException"

\* line 130
EmailHandler == "Exception"

\* line 64
SlackUrlConfigured(url) ==
    ~(~Truthy(url) \/ url.text = "SLACK_WEBHOOK_URL_REGULAR"
                  \/ url.text = "SLACK_WEBHOOK_URL_URGENT")

\* lines 57-107, one call: whether it posted, whether an exception left the
\* function, and what it returned
SlackWebhookCall(url, outcome) ==
    LET configured == SlackUrlConfigured(url)
        escapes == configured /\ outcome # "ok" /\ ~Catches(SlackHandler, outcome)
    IN  [ attempted |-> configured,
          raised |-> escapes,
          ret |-> ~escapes /\ SendSlackWebhook(configured, outcome = "ok") ]

\* line 112
SmtpConfigured(server, sender, password) ==
    Truthy(server) /\ Truthy(sender) /\ Truthy(password)

\* lines 109-132, one call: whether it opened a session, whether an exception
\* left the function, and what it returned
SendEmailCall(server, sender, password, outcome) ==
    LET configured == SmtpConfigured(server, sender, password)
        escapes == configured /\ outcome # "ok" /\ ~Catches(EmailHandler, outcome)
    IN  [ attempted |-> configured,
          raised |-> escapes,
          ret |-> ~escapes /\ SendEmail(configured, outcome = "ok") ]

\* the three chat messages of the script, by title
TitleNew == "NEW ConnectWise Ticket Alert(s)"
TitleExisting == "Existing Ticket(s) Acknowledged"
TitleNone == "All Current Tickets are Scheduled"

\* ------------------------------------------------------------------ state

VARIABLES
    file,                            \* last_run_id.txt
    pc,                              \* where each invocation stands
    last_id,                         \* line 171/173
    all_matching_tickets,            \* line 178
    new_tickets,                     \* line 181
    last_successfully_formatted_id,  \* line 188
    slack_success,                   \* line 191
    sms_success,                     \* line 192
    chats,      \* the send_slack_webhook calls of the invocation, in order
    emails,     \* the send_email calls of the invocation, in order
    writes,     \* how often the invocation opened the file for writing
    readOk,     \* whether the read of the file went through
    requestOk,  \* whether the ticket request went through
    cycle,      \* invocations started so far
    history,    \* what the finished invocations did, oldest first
    notified,   \* per ticket id, the invocations that delivered an alert for it
    override,   \* a watermark supplied from outside the script (environment)
    probe       \* one call of a function of the script on its own: arguments, result

vars ==
    << file, pc, last_id, all_matching_tickets, new_tickets,
       last_successfully_formatted_id, slack_success, sms_success,
       chats, emails, writes, readOk, requestOk, cycle, history, notified,
       override, probe >>

\* what no step of an invocation changes
outside == << override, probe >>

locals ==
    << last_id, all_matching_tickets, new_tickets,
       last_successfully_formatted_id, slack_success, sms_success >>

Ended(p) == pc[p] \in { "done", "aborted" }

\* at least one alert of the invocation was delivered
Delivered(p) ==
    \/ \E i \in 1..Len(chats[p]) : chats[p][i].ok
    \/ \E i \in 1..Len(emails[p]) : emails[p][i].ok

\* a watermark supplied from outside: none, or a number.  No line of the
\* script reads one; the only source of last_id is last_run_id.txt.
NoOverride == [present |-> FALSE, value |-> 0]
Overrides == { NoOverride } \cup { [present |-> TRUE, value |-> n] : n \in 0..MaxId + 1 }

\* everything but the file and the outside watermark, at the first line
InitLocals ==
    /\ pc = [p \in Procs |-> IF p \in SerialProcs THEN "read" ELSE "off"]
    /\ last_id = [p \in Procs |-> 0]
    /\ all_matching_tickets = [p \in Procs |-> << >>]
    /\ new_tickets = [p \in Procs |-> << >>]
    /\ last_successfully_formatted_id = [p \in Procs |-> 0]
    /\ slack_success = [p \in Procs |-> FALSE]
    /\ sms_success = [p \in Procs |-> FALSE]
    /\ chats = [p \in Procs |-> << >>]
    /\ emails = [p \in Procs |-> << >>]
    /\ writes = [p \in Procs |-> 0]
    /\ readOk = [p \in Procs |-> TRUE]
    /\ requestOk = [p \in Procs |-> TRUE]
    /\ cycle = 1
    /\ history = << >>
    /\ notified = [i \in 1..MaxId |-> 0]

\* no function is called on its own
NoProbe == [fn |-> "none"]

\* the state of the script at its first line
Init ==
    /\ file \in InitialFiles
    /\ override = NoOverride
    /\ probe = NoProbe
    /\ InitLocals

\* ------------------------------------------------------------------ the script

\* lines 167-175
ReadFile(p) ==
    /\ pc[p] = "read"
    /\ UNCHANGED outside
    /\ \E ioOk \in BOOLEAN :
        /\ last_id' = [last_id EXCEPT ![p] = ReadLastId(file, ioOk)]
        /\ readOk' = [readOk EXCEPT ![p] = file.exists /\ ioOk]
    /\ pc' = [pc EXCEPT ![p] = "fetch"]
    /\ UNCHANGED << file, all_matching_tickets, new_tickets,
                    last_successfully_formatted_id, slack_success, sms_success,
                    chats, emails, writes, requestOk, cycle, history, notified >>

\* a branch that takes a single fetched ticket for an empty board
BranchExistingMutant(new, tickets) ==
    IF new # << >> THEN "alert_new"
    ELSE IF Len(tickets) > 1 THEN "alert_existing"
    ELSE "alert_none"

\* lines 194, 249-252, 268: the branch of the invocation
Branch(new, tickets) ==
    IF new # << >> THEN "alert_new"
    ELSE IF Len(tickets) > 0 THEN "alert_existing"
    ELSE "alert_none"

\* a fetch whose RequestException is not caught: the script ends in fetch
FetchAndFilterRaiseMutant(p) ==
    /\ pc[p] = "fetch"
    /\ UNCHANGED outside
    /\ \E ok \in BOOLEAN, body \in TicketLists :
        LET tickets == GetAllMatchingTickets(ok, body)
            new == NewTickets(tickets, last_id[p])
        IN  /\ ok \/ body = << >>
            /\ requestOk' = [requestOk EXCEPT ![p] = ok]
            /\ all_matching_tickets' = [all_matching_tickets EXCEPT ![p] = tickets]
            /\ new_tickets' = [new_tickets EXCEPT ![p] = new]
            /\ pc' = [pc EXCEPT ![p] = IF ok THEN Branch(new, tickets) ELSE "aborted"]
    /\ UNCHANGED << file, last_id, last_successfully_formatted_id,
                    slack_success, sms_success, chats, emails, writes, readOk,
                    cycle, history, notified >>

\* lines 177-194, 249-252, 268: fetch a list out of `lists`, filter, choose
\* the branch.  The filter of line 181 subscripts and compares the id of
\* every fetched ticket; a KeyError or TypeError there is caught nowhere.
FetchAndFilterFrom(p, lists) ==
    /\ pc[p] = "fetch"
    /\ UNCHANGED outside
    /\ \E ok \in BOOLEAN, body \in lists :
        LET tickets == GetAllMatchingTickets(ok, body)
        IN  /\ ok \/ body = << >>
            /\ requestOk' = [requestOk EXCEPT ![p] = ok]
            /\ all_matching_tickets' = [all_matching_tickets EXCEPT ![p] = tickets]
            /\ IF FilterRaises(tickets)
               THEN /\ pc' = [pc EXCEPT ![p] = "aborted"]
                    /\ UNCHANGED new_tickets
               ELSE /\ new_tickets' = [new_tickets EXCEPT ![p] =
                            NewTickets(tickets, last_id[p])]
                    /\ pc' = [pc EXCEPT ![p] =
                            Branch(NewTickets(tickets, last_id[p]), tickets)]
    /\ UNCHANGED << file, last_id, last_successfully_formatted_id,
                    slack_success, sms_success, chats, emails, writes, readOk,
                    cycle, history, notified >>

\* the fetch from the board: tickets with integer ids
FetchAndFilter(p) == FetchAndFilterFrom(p, TicketLists)

\* the fetch from a board that also returns tickets without an integer id
FetchAndFilterAny(p) == FetchAndFilterFrom(p, AnyTicketLists)

\* the new tickets' branch with the update of last_run_id.txt moved before
\* the urgent post
AlertNewSlackWriteFirstMutant(p) ==
    /\ pc[p] = "alert_new"
    /\ UNCHANGED outside
    /\ \E urlConfigured \in BOOLEAN, postOk \in BOOLEAN :
        LET ok == SendSlackWebhook(urlConfigured, postOk)
        IN  /\ ~urlConfigured => ~postOk
            /\ slack_success' = [slack_success EXCEPT ![p] = ok]
            /\ chats' = [chats EXCEPT ![p] = Append(@,
                    [channel |-> "urgent", title |-> TitleNew,
                     tickets |-> new_tickets[p], ok |-> ok])]
            /\ notified' = [i \in 1..MaxId |->
                    IF ok /\ i \in Ids(new_tickets[p])
                    THEN notified[i] + 1 ELSE notified[i]]
    /\ last_successfully_formatted_id' =
            [last_successfully_formatted_id EXCEPT ![p] = MaxFormattedId(new_tickets[p])]
    /\ file' = WriteLastId(file, MaxFormattedId(new_tickets[p]), "ok")
    /\ writes' = [writes EXCEPT ![p] = @ + 1]
    /\ pc' = [pc EXCEPT ![p] = "alert_sms"]
    /\ UNCHANGED << last_id, all_matching_tickets, new_tickets, sms_success,
                    emails, readOk, requestOk, cycle, history >>

\* lines 195-225: format the new tickets, post them to the urgent channel
AlertNewSlack(p) ==
    /\ pc[p] = "alert_new"
    /\ UNCHANGED outside
    /\ \E urlConfigured \in BOOLEAN, postOk \in BOOLEAN :
        LET ok == SendSlackWebhook(urlConfigured, postOk)
        IN  /\ ~urlConfigured => ~postOk
            /\ slack_success' = [slack_success EXCEPT ![p] = ok]
            /\ chats' = [chats EXCEPT ![p] = Append(@,
                    [channel |-> "urgent", title |-> TitleNew,
                     tickets |-> new_tickets[p], ok |-> ok])]
            /\ notified' = [i \in 1..MaxId |->
                    IF ok /\ i \in Ids(new_tickets[p])
                    THEN notified[i] + 1 ELSE notified[i]]
    /\ last_successfully_formatted_id' =
            [last_successfully_formatted_id EXCEPT ![p] = MaxFormattedId(new_tickets[p])]
    /\ pc' = [pc EXCEPT ![p] = "alert_sms"]
    /\ UNCHANGED << file, last_id, all_matching_tickets, new_tickets, sms_success,
                    emails, writes, readOk, requestOk, cycle, history >>

\* line 233
SendSuccess(slack, sms) == slack \/ sms

\* lines 235-236
ShouldWrite(sendSuccess, id) == sendSuccess /\ id > 0

\* lines 227-247: send the SMS mail, then update last_run_id.txt.  Line 228
\* names the recipient SMS_RECIPIENT_EMAIL; evaluating an unbound name raises
\* NameError before send_email is entered, nothing catches it and the script
\* ends there.
AlertNewSmsAndUpdate(p) ==
    /\ pc[p] = "alert_sms"
    /\ UNCHANGED outside
    /\ IF ~NameBound("SMS_RECIPIENT_EMAIL")
       THEN /\ pc' = [pc EXCEPT ![p] = "aborted"]
            /\ UNCHANGED << file, sms_success, emails, writes, notified >>
       ELSE \E smtpConfigured \in BOOLEAN, sessionOk \in BOOLEAN,
               outcome \in WriteOutcomes :
            LET ok == SendEmail(smtpConfigured, sessionOk)
                id == last_successfully_formatted_id[p]
                write == ShouldWrite(SendSuccess(slack_success[p], ok), id)
            IN  /\ ~smtpConfigured => ~sessionOk
                /\ write \/ outcome = "ok"
                /\ sms_success' = [sms_success EXCEPT ![p] = ok]
                /\ emails' = [emails EXCEPT ![p] = Append(@,
                        [recipient |-> "SMS_RECIPIENT_EMAIL",
                         tickets |-> new_tickets[p], ok |-> ok])]
                /\ notified' = [i \in 1..MaxId |->
                        IF ok /\ ~slack_success[p] /\ i \in Ids(new_tickets[p])
                        THEN notified[i] + 1 ELSE notified[i]]
                /\ file' = IF write THEN WriteLastId(file, id, outcome) ELSE file
                /\ writes' = [writes EXCEPT ![p] = IF write THEN @ + 1 ELSE @]
                /\ pc' = [pc EXCEPT ![p] = "done"]
    /\ UNCHANGED << last_id, all_matching_tickets, new_tickets,
                    last_successfully_formatted_id, slack_success, chats,
                    readOk, requestOk, cycle, history >>

\* the status update followed by an SMS mail, as in the branch of the new
\* tickets
AlertExistingSmsMutant(p) ==
    /\ pc[p] = "alert_existing"
    /\ UNCHANGED outside
    /\ \E urlConfigured \in BOOLEAN, postOk \in BOOLEAN, smsOk \in BOOLEAN :
        /\ ~urlConfigured => ~postOk
        /\ chats' = [chats EXCEPT ![p] = Append(@,
                [channel |-> "regular", title |-> TitleExisting,
                 tickets |-> all_matching_tickets[p],
                 ok |-> SendSlackWebhook(urlConfigured, postOk)])]
        /\ emails' = [emails EXCEPT ![p] = Append(@,
                [recipient |-> "SMS_RECIPIENT_EMAIL",
                 tickets |-> all_matching_tickets[p], ok |-> smsOk])]
    /\ pc' = [pc EXCEPT ![p] = "done"]
    /\ UNCHANGED << file, locals, writes, readOk, requestOk, cycle,
                    history, notified >>

\* lines 252-266: no new ticket, some tickets: post all of them to the
\* regular channel
AlertExisting(p) ==
    /\ pc[p] = "alert_existing"
    /\ UNCHANGED outside
    /\ \E urlConfigured \in BOOLEAN, postOk \in BOOLEAN :
        /\ ~urlConfigured => ~postOk
        /\ chats' = [chats EXCEPT ![p] = Append(@,
                [channel |-> "regular", title |-> TitleExisting,
                 tickets |-> all_matching_tickets[p],
                 ok |-> SendSlackWebhook(urlConfigured, postOk)])]
    /\ pc' = [pc EXCEPT ![p] = "done"]
    /\ UNCHANGED << file, locals, emails, writes, readOk, requestOk, cycle,
                    history, notified >>

\* the fixed message, posted again as long as the post fails
AlertNoneRetryMutant(p) ==
    /\ pc[p] = "alert_none"
    /\ UNCHANGED outside
    /\ \E urlConfigured \in BOOLEAN, postOk \in BOOLEAN :
        /\ ~urlConfigured => ~postOk
        /\ chats' = [chats EXCEPT ![p] = Append(@,
                [channel |-> "regular", title |-> TitleNone,
                 tickets |-> << >>,
                 ok |-> SendSlackWebhook(urlConfigured, postOk)])]
        /\ pc' = [pc EXCEPT ![p] =
                IF SendSlackWebhook(urlConfigured, postOk) THEN "done" ELSE "alert_none"]
    /\ UNCHANGED << file, locals, emails, writes, readOk, requestOk, cycle,
                    history, notified >>

\* lines 268-275: no ticket at all: post the fixed message to the regular
\* channel
AlertNone(p) ==
    /\ pc[p] = "alert_none"
    /\ UNCHANGED outside
    /\ \E urlConfigured \in BOOLEAN, postOk \in BOOLEAN :
        /\ ~urlConfigured => ~postOk
        /\ chats' = [chats EXCEPT ![p] = Append(@,
                [channel |-> "regular", title |-> TitleNone,
                 tickets |-> << >>,
                 ok |-> SendSlackWebhook(urlConfigured, postOk)])]
    /\ pc' = [pc EXCEPT ![p] = "done"]
    /\ UNCHANGED << file, locals, emails, writes, readOk, requestOk, cycle,
                    history, notified >>

\* ------------------------------------------------------------------ the scheduler

\* what an ended invocation leaves in the history
Summary(p) ==
    [ last_id |-> last_id[p],
      readOk |-> readOk[p],
      ids |-> Ids(all_matching_tickets[p]),
      newIds |-> Ids(new_tickets[p]),
      delivered |-> Delivered(p),
      urgentCalls |-> Cardinality({ i \in 1..Len(chats[p]) : chats[p][i].channel = "urgent" }),
      emailCalls |-> Len(emails[p]),
      writes |-> writes[p],
      aborted |-> pc[p] = "aborted" ]

\* the scheduler starts the next invocation: a fresh process, nothing kept
\* but the file
NextInvocation(p) ==
    /\ Ended(p)
    /\ UNCHANGED outside
    /\ cycle < MaxCycles
    /\ cycle' = cycle + 1
    /\ history' = Append(history, Summary(p))
    /\ pc' = [pc EXCEPT ![p] = "read"]
    /\ last_id' = [last_id EXCEPT ![p] = 0]
    /\ all_matching_tickets' = [all_matching_tickets EXCEPT ![p] = << >>]
    /\ new_tickets' = [new_tickets EXCEPT ![p] = << >>]
    /\ last_successfully_formatted_id' = [last_successfully_formatted_id EXCEPT ![p] = 0]
    /\ slack_success' = [slack_success EXCEPT ![p] = FALSE]
    /\ sms_success' = [sms_success EXCEPT ![p] = FALSE]
    /\ chats' = [chats EXCEPT ![p] = << >>]
    /\ emails' = [emails EXCEPT ![p] = << >>]
    /\ writes' = [writes EXCEPT ![p] = 0]
    /\ readOk' = [readOk EXCEPT ![p] = TRUE]
    /\ requestOk' = [requestOk EXCEPT ![p] = TRUE]
    /\ UNCHANGED << file, notified >>

Next ==
    \E p \in SerialProcs :
        \/ ReadFile(p)
        \/ FetchAndFilter(p)
        \/ AlertNewSlack(p)
        \/ AlertNewSmsAndUpdate(p)
        \/ AlertExisting(p)
        \/ AlertNone(p)
        \/ NextInvocation(p)

Spec == Init /\ [][Next]_vars

\* the read of the watermark alone, for every file and every outside value
InitRead ==
    /\ file \in InitialFiles
    /\ override \in Overrides
    /\ probe = NoProbe
    /\ InitLocals

NextRead == \E p \in SerialProcs : ReadFile(p)

SpecRead == InitRead /\ [][NextRead]_vars

\* the two send functions on their own, for every setting and every way the
\* network can fail
UrlSettings ==
    { Unset, Env(""), Env("SLACK_WEBHOOK_URL_REGULAR"),
      Env("SLACK_WEBHOOK_URL_URGENT"), Env("https://hooks.slack.com/services/T/B/X") }
ServerSettings == { Unset, Env(""), Env("smtp.gmail.com") }
SenderSettings == { Unset, Env("alerts@example.com") }
PasswordSettings == { Unset, Env("app-password") }

InitSend ==
    /\ file = NoFile
    /\ override = NoOverride
    /\ InitLocals
    /\ probe \in
            { [fn |-> "send_slack_webhook", url |-> u, outcome |-> o, done |-> FALSE] :
                u \in UrlSettings, o \in PostOutcomes }
            \cup
            { [fn |-> "send_email", server |-> h, sender |-> a, password |-> w,
               outcome |-> o, done |-> FALSE] :
                h \in ServerSettings, a \in SenderSettings, w \in PasswordSettings,
                o \in SessionOutcomes }

CallSendSlackWebhook ==
    /\ probe.fn = "send_slack_webhook" /\ ~probe.done
    /\ probe' = [ fn |-> probe.fn, url |-> probe.url, outcome |-> probe.outcome,
                  done |-> TRUE,
                  result |-> SlackWebhookCall(probe.url, probe.outcome) ]
    /\ UNCHANGED << file, pc, locals, chats, emails, writes, readOk, requestOk,
                    cycle, history, notified, override >>

CallSendEmail ==
    /\ probe.fn = "send_email" /\ ~probe.done
    /\ probe' = [ fn |-> probe.fn, server |-> probe.server, sender |-> probe.sender,
                  password |-> probe.password, outcome |-> probe.outcome,
                  done |-> TRUE,
                  result |-> SendEmailCall(probe.server, probe.sender,
                                           probe.password, probe.outcome) ]
    /\ UNCHANGED << file, pc, locals, chats, emails, writes, readOk, requestOk,
                    cycle, history, notified, override >>

NextSend == CallSendSlackWebhook \/ CallSendEmail

SpecSend == InitSend /\ [][NextSend]_vars

\* lines 181-247 on their own: from the value read, the fetched list and what
\* the two sends returned to what the file holds afterwards
UpdateLastId(f, lastId, tickets, slack, sms, outcome) ==
    LET new == NewTickets(tickets, lastId)
        id == MaxFormattedId(new)
        write == ShouldWrite(SendSuccess(slack, sms), id)
    IN  [ written |-> write,
          id |-> id,
          file |-> IF write THEN WriteLastId(f, id, outcome) ELSE f ]

InitUpdate ==
    /\ file = NoFile
    /\ override = NoOverride
    /\ InitLocals
    /\ probe \in
            { [fn |-> "update_last_id", last_id |-> w, tickets |-> t,
               slack |-> a, sms |-> b, outcome |-> o, done |-> FALSE] :
                w \in 0..MaxId, t \in TicketLists, a \in BOOLEAN, b \in BOOLEAN,
                o \in WriteOutcomes }

\* line 194: the block runs when there are new tickets
CallUpdateLastId ==
    /\ probe.fn = "update_last_id" /\ ~probe.done
    /\ NewTickets(probe.tickets, probe.last_id) # << >>
    /\ probe' = [ fn |-> probe.fn, last_id |-> probe.last_id,
                  tickets |-> probe.tickets, slack |-> probe.slack,
                  sms |-> probe.sms, outcome |-> probe.outcome, done |-> TRUE,
                  result |-> UpdateLastId(FileWith(StrOf(probe.last_id)),
                                          probe.last_id, probe.tickets, probe.slack,
                                          probe.sms, probe.outcome) ]
    /\ UNCHANGED << file, pc, locals, chats, emails, writes, readOk, requestOk,
                    cycle, history, notified, override >>

NextUpdate == CallUpdateLastId

SpecUpdate == InitUpdate /\ [][NextUpdate]_vars

\* two invocations of the script started against the same last_run_id.txt,
\* their steps interleaved in any order; nothing in the script locks the file
InitConcurrent ==
    /\ file \in InitialFiles
    /\ override = NoOverride
    /\ probe = NoProbe
    /\ pc = [p \in Procs |-> "read"]
    /\ last_id = [p \in Procs |-> 0]
    /\ all_matching_tickets = [p \in Procs |-> << >>]
    /\ new_tickets = [p \in Procs |-> << >>]
    /\ last_successfully_formatted_id = [p \in Procs |-> 0]
    /\ slack_success = [p \in Procs |-> FALSE]
    /\ sms_success = [p \in Procs |-> FALSE]
    /\ chats = [p \in Procs |-> << >>]
    /\ emails = [p \in Procs |-> << >>]
    /\ writes = [p \in Procs |-> 0]
    /\ readOk = [p \in Procs |-> TRUE]
    /\ requestOk = [p \in Procs |-> TRUE]
    /\ cycle = 1
    /\ history = << >>
    /\ notified = [i \in 1..MaxId |-> 0]

NextConcurrent ==
    \E p \in Procs :
        \/ ReadFile(p)
        \/ FetchAndFilter(p)
        \/ AlertNewSlack(p)
        \/ AlertNewSmsAndUpdate(p)
        \/ AlertExisting(p)
        \/ AlertNone(p)

SpecConcurrent == InitConcurrent /\ [][NextConcurrent]_vars

\* ------------------------------------------------------------------ format_ticket_message

\* the value of the key 'priority' or 'site' of a ticket: the key absent, JSON
\* null, an object without 'name', or an object with a name
Absent == [kind |-> "absent", name |-> ""]
Null == [kind |-> "null", name |-> ""]
NoName == [kind |-> "object", name |-> "", named |-> FALSE]
Named(n) == [kind |-> "object", name |-> n, named |-> TRUE]

\* lines 144-150
priority_map ==
    [ n \in { "Priority 1 - Critical", "Priority 2 - High", "Priority 3 - Medium",
              "Priority 4 - Low", "N/A" } |->
        CASE n = "Priority 1 - Critical" -> "P1-CRIT"
          [] n = "Priority 2 - High" -> "P2-HIGH"
          [] n = "Priority 3 - Medium" -> "P3-MED"
          [] n = "Priority 4 - Low" -> "P4-LOW"
          [] n = "N/A" -> "N/A" ]

\* the backquote of line 157, a character a TLA+ string cannot hold
Backquote == "[backquote]"

\* dict.get(key, default) of line 151
MapGet(map, key, default) == IF key \in DOMAIN map THEN map[key] ELSE default

\* lines 140-141: ticket.get(key, {}).get('name', 'N/A').  The default {} is
\* used only when the key is absent; a null value is None, and None.get
\* raises AttributeError
NameOf(field) ==
    CASE field.kind = "absent" -> [raised |-> FALSE, name |-> "N/A"]
      [] field.kind = "null" -> [raised |-> TRUE, name |-> ""]
      [] field.kind = "object" ->
            [raised |-> FALSE, name |-> IF field.named THEN field.name ELSE "N/A"]

\* lines 134-160: the text as the sequence of its pieces, or an exception;
\* ticket['id'] raises KeyError without the key
format_ticket_message(ticket, for_slack) ==
    LET priority == NameOf(ticket.priority)
        site == NameOf(ticket.site)
        abbreviated_priority == MapGet(priority_map, priority.name, priority.name)
    IN  IF priority.raised \/ site.raised \/ "id" \notin DOMAIN ticket
        THEN [raised |-> TRUE, text |-> << >>]
        ELSE [raised |-> FALSE,
              text |-> IF for_slack
                       THEN << Backquote >> \o StrOf(ticket.id) \o
                            << Backquote, " | ", "*", abbreviated_priority, "*", " | ",
                               site.name >>
                       ELSE StrOf(ticket.id) \o
                            << " | ", abbreviated_priority, " | ", site.name >>]

\* the tickets format_ticket_message is tried on
PriorityFields ==
    { Absent, Null, NoName }
    \cup { Named(n) : n \in DOMAIN priority_map \cup { "Custom", "" } }
SiteFields == { Absent, Null, NoName, Named("Acme"), Named("") }
FormatTickets ==
    { [id |-> i, priority |-> q, site |-> z] :
        i \in 1..MaxId, q \in PriorityFields, z \in SiteFields }
    \cup { [priority |-> q, site |-> z] : q \in PriorityFields, z \in SiteFields }

InitFormat ==
    /\ file = NoFile
    /\ override = NoOverride
    /\ InitLocals
    /\ probe \in
            { [fn |-> "format_ticket_message", ticket |-> t, for_slack |-> b,
               done |-> FALSE] : t \in FormatTickets, b \in BOOLEAN }

CallFormatTicketMessage ==
    /\ probe.fn = "format_ticket_message" /\ ~probe.done
    /\ probe' = [ fn |-> probe.fn, ticket |-> probe.ticket,
                  for_slack |-> probe.for_slack, done |-> TRUE,
                  result |-> format_ticket_message(probe.ticket, probe.for_slack) ]
    /\ UNCHANGED << file, pc, locals, chats, emails, writes, readOk, requestOk,
                    cycle, history, notified, override >>

NextFormat == CallFormatTicketMessage

SpecFormat == InitFormat /\ [][NextFormat]_vars

\* one invocation on a board that may return tickets without an integer id
NextAny ==
    \E p \in SerialProcs :
        \/ ReadFile(p)
        \/ FetchAndFilterAny(p)
        \/ AlertNewSlack(p)
        \/ AlertNewSmsAndUpdate(p)
        \/ AlertExisting(p)
        \/ AlertNone(p)

SpecAny == Init /\ [][NextAny]_vars

\* ------------------------------------------------------------------ claims

\* what the claims speak of, stated from the fetched list and the value read
NewSet(p) == { t \in Ids(all_matching_tickets[p]) : t > last_id[p] }
SetMax(S) == CHOOSE m \in S : \A x \in S : x <= m
Candidate(p) == SetMax(NewSet(p))
Fetched(p) == pc[p] \notin { "off", "read", "fetch" }
UrgentChats(p) == { i \in 1..Len(chats[p]) : chats[p][i].channel = "urgent" }
RegularChats(p) == { i \in 1..Len(chats[p]) : chats[p][i].channel = "regular" }
UrgentTickets(p) == UNION { Ids(chats[p][i].tickets) : i \in UrgentChats(p) }
EmailTickets(p) == UNION { Ids(emails[p][i].tickets) : i \in 1..Len(emails[p]) }
Advanced(p) == writes[p] > 0 /\ file = FileWith(StrOf(Candidate(p)))

\* C1: in an invocation with new tickets the stored id is advanced to the
\* highest new id iff the chat post or a mail was delivered, and the file is
\* left alone when none was.
C1_AdvancesIffDelivered ==
    \A p \in SerialProcs :
        (Ended(p) /\ NewSet(p) # {}) =>
            /\ Advanced(p) <=> Delivered(p)
            /\ ~Delivered(p) => writes[p] = 0

\* C2 as stated: the value an invocation reads is never lower than the value
\* an earlier invocation read, whatever failed, and differs from the previous
\* one only if that invocation had new tickets and delivered an alert.
C2_ReadNeverLower ==
    \A p \in SerialProcs :
        (pc[p] # "read" /\ history # << >>) =>
            LET prev == history[Len(history)]
            IN  /\ \A i \in 1..Len(history) : last_id[p] >= history[i].last_id
                /\ last_id[p] # prev.last_id => (prev.newIds # {} /\ prev.delivered)

\* C2 amended: the value an invocation reads, when its read of the file went
\* through, is never lower than the value an earlier invocation read; and the
\* value differs from the previous one only if that invocation had new
\* tickets and delivered an alert, or one of the two reads failed.
C2_ReadNeverLowerUnlessReadFails ==
    \A p \in SerialProcs :
        (pc[p] # "read" /\ history # << >>) =>
            LET prev == history[Len(history)]
            IN  /\ readOk[p] => \A i \in 1..Len(history) : last_id[p] >= history[i].last_id
                /\ last_id[p] # prev.last_id =>
                        \/ prev.newIds # {} /\ prev.delivered
                        \/ ~readOk[p]
                        \/ ~prev.readOk

\* a later invocation has read the file after one that had new tickets and
\* delivered their alert
C2_Witness ==
    \E p \in SerialProcs :
        /\ pc[p] # "read" /\ history # << >>
        /\ readOk[p] /\ last_id[p] > 0
        /\ history[Len(history)].readOk
        /\ history[Len(history)].newIds # {}
        /\ history[Len(history)].delivered

\* C3: the tickets of the urgent chat post and those of the SMS mail are both
\* exactly the fetched tickets with id > last_id; no other ticket is in them.
C3_NotifiedExactlyNew ==
    \A p \in SerialProcs :
        Ended(p) =>
            /\ UrgentTickets(p) = NewSet(p)
            /\ EmailTickets(p) = NewSet(p)

\* C4: no ticket id has an alert delivered for it by more than one invocation.
C4_AtMostOnce == \A i \in 1..MaxId : notified[i] <= 1

\* C5: every invocation runs to its last line; none is ended by an uncaught
\* exception.
C5_AlwaysDone == \A p \in SerialProcs : pc[p] # "aborted"

\* C6: after an invocation with new tickets of which no alert was delivered,
\* the file is untouched and the next invocation, fetching the same tickets
\* (its read of the file faring as the first one's did), has the same new
\* tickets and attempts the urgent post and the mail for them again.
C6_RetryNextInvocation ==
    \A p \in SerialProcs :
        (/\ Ended(p) /\ history # << >>
         /\ history[Len(history)].newIds # {}
         /\ ~history[Len(history)].delivered
         /\ readOk[p] = history[Len(history)].readOk
         /\ Ids(all_matching_tickets[p]) = history[Len(history)].ids) =>
            /\ history[Len(history)].writes = 0
            /\ NewSet(p) = history[Len(history)].newIds
            /\ UrgentChats(p) # {}
            /\ emails[p] # << >>

\* C7: an invocation without new tickets sends no mail and does not write the
\* file, whether its chat post to the regular channel is delivered or not.
C7_NoNewNoMailNoWrite ==
    \A p \in SerialProcs :
        (Fetched(p) /\ NewSet(p) = {}) => (emails[p] = << >> /\ writes[p] = 0)

\* an invocation without new tickets ended with its status post failed
C7_Witness ==
    \E p \in SerialProcs :
        /\ Ended(p) /\ NewSet(p) = {} /\ all_matching_tickets[p] # << >>
        /\ Len(chats[p]) = 1 /\ ~chats[p][1].ok

C9_OneMailPerRecipient ==
    \A p \in SerialProcs :
        (Ended(p) /\ NewSet(p) # {}) =>
            /\ Len(emails[p]) = Len(SMS_RECIPIENT_EMAILS)
            /\ \A r \in 1..Len(SMS_RECIPIENT_EMAILS) :
                Cardinality({ i \in 1..Len(emails[p]) :
                    emails[p][i].recipient = SMS_RECIPIENT_EMAILS[r] }) = 1

\* C10: a failed ticket request gives the empty list and no exception, and the
\* invocation goes on as for an empty board: the fixed message to the regular
\* channel as its only post, no mail, the file not written.
C10_FetchFailureAsEmptyBoard ==
    \A p \in SerialProcs :
        (Fetched(p) /\ ~requestOk[p]) =>
            /\ all_matching_tickets[p] = << >>
            /\ pc[p] \in { "alert_none", "done" }
            /\ emails[p] = << >> /\ writes[p] = 0
            /\ pc[p] = "done" =>
                /\ Len(chats[p]) = 1
                /\ chats[p][1].channel = "regular"
                /\ chats[p][1].title = TitleNone

\* an invocation ended after a failed ticket request
C10_Witness ==
    \E p \in SerialProcs :
        pc[p] = "done" /\ ~requestOk[p] /\ Len(chats[p]) = 1

\* C11: the value read at the start is the outside value when there is one
\* and it is not 0; otherwise the number in last_run_id.txt when the file is
\* there, readable and numeric; otherwise 0.
C11_ReadPrecedence ==
    \A p \in SerialProcs :
        pc[p] = "fetch" =>
            last_id[p] =
                IF override.present /\ override.value # 0 THEN override.value
                ELSE IF readOk[p] /\ IsDigit(Strip(file.text)) THEN IntOf(Strip(file.text))
                ELSE 0

\* the two lower ranks of C11 alone: the file's number, otherwise 0
C11_FileThenZero ==
    \A p \in SerialProcs :
        pc[p] = "fetch" =>
            last_id[p] =
                IF readOk[p] /\ IsDigit(Strip(file.text)) THEN IntOf(Strip(file.text))
                ELSE 0

\* C12: a fetched ticket without a numeric id counts as id 0: the invocation
\* is not ended by it, it is never among the new tickets, and it is shown
\* only in the post of the existing tickets.
HasMalformed(tickets) == \E i \in 1..Len(tickets) : ~HasIntId(tickets[i])

C12_MalformedIdAsZero ==
    \A p \in SerialProcs :
        (Fetched(p) /\ HasMalformed(all_matching_tickets[p])) =>
            /\ ~(pc[p] = "aborted" /\ chats[p] = << >>)
            /\ ~HasMalformed(new_tickets[p])
            /\ \A i \in 1..Len(chats[p]) :
                HasMalformed(chats[p][i].tickets) => chats[p][i].title = TitleExisting

\* C13: in an invocation with new tickets the SMS mail is attempted after the
\* urgent post whatever the post returned, and the file is written only after
\* both have been attempted.
C13_MailAttemptedAfterChat ==
    \A p \in SerialProcs :
        /\ (Ended(p) /\ UrgentChats(p) # {}) => Len(emails[p]) >= 1
        /\ writes[p] > 0 => (UrgentChats(p) # {} /\ Len(emails[p]) >= 1)

C16_NoRetry ==
    [][ \A p \in SerialProcs :
            /\ pc'[p] = "fetch" => pc[p] = "read"
            /\ Len(chats'[p]) <= 1
            /\ \A i, j \in 1..Len(emails'[p]) :
                emails'[p][i].recipient = emails'[p][j].recipient => i = j ]_vars

\* an invocation ended after a failed ticket request and a failed post, with
\* one call of send_slack_webhook
C16_Witness ==
    \E p \in SerialProcs :
        /\ Ended(p) /\ ~requestOk[p]
        /\ Len(chats[p]) = 1 /\ ~chats[p][1].ok

\* what C17 says a formatted ticket shows: the abbreviation of a priority of
\* the table, another priority as it is, N/A for a priority or site that is
\* absent or empty
ShownPriority(field) ==
    IF field.kind = "object" /\ field.named
    THEN CASE field.name = "Priority 1 - Critical" -> "P1-CRIT"
           [] field.name = "Priority 2 - High" -> "P2-HIGH"
           [] field.name = "Priority 3 - Medium" -> "P3-MED"
           [] field.name = "Priority 4 - Low" -> "P4-LOW"
           [] OTHER -> field.name
    ELSE "N/A"
ShownSite(field) == IF field.kind = "object" /\ field.named THEN field.name ELSE "N/A"

FormatAsClaimed(result, ticket, for_slack) ==
    /\ ~result.raised
    /\ Len(result.text) >= 3
    /\ result.text[Len(result.text)] = ShownSite(ticket.site)
    /\ result.text[Len(result.text) - (IF for_slack THEN 3 ELSE 2)]
            = ShownPriority(ticket.priority)

\* C17: format_ticket_message returns a text for every ticket and both
\* styles, never failing, also when priority or site is absent or empty; the
\* priority shown is the abbreviation of the table or else the name itself,
\* an absent priority or site is shown as N/A.
C17_FormatTotal ==
    (probe.fn = "format_ticket_message" /\ probe.done) =>
        FormatAsClaimed(probe.result, probe.ticket, probe.for_slack)

\* C17 for the tickets that have an id and whose priority and site are not
\* JSON null
C17_FormatOfRegularTickets ==
    (probe.fn = "format_ticket_message" /\ probe.done
        /\ "id" \in DOMAIN probe.ticket
        /\ probe.ticket.priority.kind # "null" /\ probe.ticket.site.kind # "null") =>
        FormatAsClaimed(probe.result, probe.ticket, probe.for_slack)

\* C18: two invocations running at once race on the read-modify-write of
\* last_run_id.txt: each one notifies on the urgent channel every ticket above
\* the value it read, whatever the other one notified (so a ticket can be
\* notified twice), and each one that delivered an alert writes the candidate
\* it computed from the value it read, whatever the other one wrote meanwhile
\* (so a higher value written earlier can be overwritten by a lower one).
C18_RaceOnWatermark ==
    \A p \in Procs :
        (Ended(p) /\ NewSet(p) # {}) =>
            /\ NewSet(p) \subseteq UrgentTickets(p)
            /\ Delivered(p) => writes[p] > 0

\* the duplicate of C18: a ticket in the urgent post of both invocations
C18_DuplicateUrgent == UrgentTickets(1) \cap UrgentTickets(2) # {}
C18_NoDuplicateUrgent == ~C18_DuplicateUrgent

\* no invocation reaches the write of line 239, lost or not
C18_NoWrite == \A p \in Procs : writes[p] = 0

\* what a step of invocation p does, read off the record of its dispatches
ChatSent(p) == Len(chats'[p]) > Len(chats[p])
EmailSent(p) == Len(emails'[p]) > Len(emails[p])
FileWritten(p) == writes'[p] > writes[p]
Restarted(p) == pc'[p] = "read"

NoNewIdBranch(sendSuccess, id) == ~ShouldWrite(sendSuccess, id) /\ sendSuccess

\* C20: the value an invocation reads from last_run_id.txt is never negative
\* (a missing, unreadable, empty, negative or otherwise non-digit text reads
\* as 0); so with new tickets the id to be stored is above 0 and the branch
\* 'No new ID to log, but alerts succeeded' is not taken.
C20_ReadNonNegative ==
    \A p \in SerialProcs :
        /\ last_id[p] >= 0
        /\ (pc[p] \in { "alert_sms", "done", "aborted" } /\ new_tickets[p] # << >>) =>
                /\ last_successfully_formatted_id[p] > 0
                /\ last_successfully_formatted_id[p] > last_id[p]
                /\ \A sms \in BOOLEAN :
                        ~NoNewIdBranch(SendSuccess(slack_success[p], sms),
                                       last_successfully_formatted_id[p])

C20_Witness ==
    \E p \in SerialProcs :
        /\ file = FileWith(<< "-", "1" >>)
        /\ readOk[p] /\ last_id[p] = 0
        /\ pc[p] = "aborted" /\ new_tickets[p] # << >>
        /\ slack_success[p]

====
